---- MODULE Spec2Model ----
(***************************************************************************)
(* The chat-completion gateway of app.py: the credential check and decode, *)
(* the translation of OpenAI-style messages into the Bedrock payload, the  *)
(* single outbound call, the unwrapping of its answer and the completion   *)
(* object or error envelope that chat_completions returns.                 *)
(***************************************************************************)
EXTENDS Integers, Sequences, FiniteSets, TLC

(***************************************************************************)
(* JSON values.  Every value is a pair <<tag, value>> whose tag decides    *)
(* the shape of the value: a string is a sequence of characters            *)
(* (one-character strings; a literal that is only ever compared whole is   *)
(* one element), a list is a sequence of values, an object is a record of  *)
(* values.                                                                 *)
(***************************************************************************)
JS(s) == <<"str", s>>
Str(lit) == JS(<<lit>>)
JL(l) == <<"list", l>>
JO(f) == <<"obj", f>>
JNum(n) == <<"num", n>>
JNull == <<"null", <<>>>>
EmptyObj == JO([k \in {} |-> JNull])

Tag(j) == j[1]
Val(j) == j[2]
IsStr(j) == Tag(j) = "str"
IsList(j) == Tag(j) = "list"
IsObj(j) == Tag(j) = "obj"

\* A Python result: a value, or a raised exception with its str() text.
Ok(x) == [ok |-> TRUE, val |-> x]
Exc(type, text) == [ok |-> FALSE, exc |-> type, text |-> text]

\* Exception propagation: the rest of the computation F runs on the value of
\* r, unless r raised.
Then(r, F(_)) == IF r.ok THEN F(r.val) ELSE r

\* dict.get(key, default) on an object.
Get(o, key, default) == IF key \in DOMAIN Val(o) THEN Val(o)[key] ELSE default

\* The name Python prints for a value's type in an AttributeError/TypeError.
PyType(j) ==
  CASE Tag(j) = "str" -> "str"
    [] Tag(j) = "list" -> "list"
    [] Tag(j) = "obj" -> "dict"
    [] Tag(j) = "num" -> "int"
    [] OTHER -> "NoneType"

NoAttr(j, attr) ==
  Exc("AttributeError", <<"'", PyType(j), "' object has no attribute '", attr, "'">>)

(***************************************************************************)
(* Strings.                                                                *)
(***************************************************************************)
IsSpace(c) == c \in {" ", "\n", "\t", "\r"}

RECURSIVE LStrip(_)
LStrip(s) == IF s # <<>> /\ IsSpace(Head(s)) THEN LStrip(Tail(s)) ELSE s

RECURSIVE RStrip(_)
RStrip(s) ==
  IF s # <<>> /\ IsSpace(s[Len(s)]) THEN RStrip(SubSeq(s, 1, Len(s) - 1)) ELSE s

\* str.strip()
Strip(s) == RStrip(LStrip(s))

\* str.startswith(prefix)
StartsWith(s, prefix) ==
  Len(s) >= Len(prefix) /\ SubSeq(s, 1, Len(prefix)) = prefix

\* str.replace(old, ""): every non-overlapping occurrence, left to right.
RECURSIVE RemoveAll(_, _)
RemoveAll(s, old) ==
  IF s = <<>> THEN <<>>
  ELSE IF StartsWith(s, old) THEN RemoveAll(SubSeq(s, Len(old) + 1, Len(s)), old)
  ELSE <<Head(s)>> \o RemoveAll(Tail(s), old)

\* Index of the first occurrence of character c in s, 0 when there is none.
RECURSIVE FindFrom(_, _, _)
FindFrom(s, c, i) ==
  IF i > Len(s) THEN 0 ELSE IF s[i] = c THEN i ELSE FindFrom(s, c, i + 1)

Find(s, c) == FindFrom(s, c, 1)

\* str.split(sep): all the pieces.
RECURSIVE Split(_, _)
Split(s, sep) ==
  LET i == Find(s, sep) IN
    IF i = 0 THEN <<s>>
    ELSE <<SubSeq(s, 1, i - 1)>> \o Split(SubSeq(s, i + 1, Len(s)), sep)

\* str.split(sep, 1): at most two pieces, cut at the first separator.
Split1(s, sep) ==
  LET i == Find(s, sep) IN
    IF i = 0 THEN <<s>>
    ELSE <<SubSeq(s, 1, i - 1), SubSeq(s, i + 1, Len(s))>>

(***************************************************************************)
(* base64.b64decode(x) followed by bytes.decode('utf-8').                  *)
(***************************************************************************)
B64Alphabet ==
  << "A","B","C","D","E","F","G","H","I","J","K","L","M","N","O","P",
     "Q","R","S","T","U","V","W","X","Y","Z","a","b","c","d","e","f",
     "g","h","i","j","k","l","m","n","o","p","q","r","s","t","u","v",
     "w","x","y","z","0","1","2","3","4","5","6","7","8","9","+","/" >>

IsB64(c) == \E i \in 1..64 : B64Alphabet[i] = c
B64Val(c) == (CHOOSE i \in 1..64 : B64Alphabet[i] = c) - 1

\* binascii.a2b_base64 in its default (non-strict) mode: characters outside
\* the alphabet are skipped, a sufficient run of '=' ends the input.
RECURSIVE A2bBase64(_, _, _, _, _)
A2bBase64(s, quad, left, pads, out) ==
  IF s = <<>> THEN
    IF quad = 0 THEN Ok(out)
    ELSE IF quad = 1 THEN
      Exc("Error", <<"Invalid base64-encoded string: number of data characters cannot be 1 more than a multiple of 4">>)
    ELSE Exc("Error", <<"Incorrect padding">>)
  ELSE
    LET c == Head(s) IN
      IF c = "=" THEN
        IF quad >= 2 /\ quad + pads + 1 >= 4 THEN Ok(out)
        ELSE A2bBase64(Tail(s), quad, left, IF quad >= 2 THEN pads + 1 ELSE pads, out)
      ELSE IF ~IsB64(c) THEN A2bBase64(Tail(s), quad, left, pads, out)
      ELSE
        LET x == B64Val(c) IN
          CASE quad = 0 -> A2bBase64(Tail(s), 1, x, 0, out)
            [] quad = 1 ->
                 A2bBase64(Tail(s), 2, x % 16, 0, Append(out, left * 4 + x \div 16))
            [] quad = 2 ->
                 A2bBase64(Tail(s), 3, x % 4, 0, Append(out, left * 16 + x \div 4))
            [] OTHER ->
                 A2bBase64(Tail(s), 0, 0, 0, Append(out, left * 64 + x))

B64Decode(s) == A2bBase64(s, 0, 0, 0, <<>>)

IsCont(b) == b \in 128..191

\* Strict UTF-8 validity of a byte sequence.
RECURSIVE Utf8Valid(_)
Utf8Valid(bs) ==
  IF bs = <<>> THEN TRUE
  ELSE
    LET b == bs[1]
        n == Len(bs)
    IN
      CASE b < 128 -> Utf8Valid(Tail(bs))
        [] b \in 194..223 ->
             n >= 2 /\ IsCont(bs[2]) /\ Utf8Valid(SubSeq(bs, 3, n))
        [] b \in 224..239 ->
             /\ n >= 3
             /\ IsCont(bs[2])
             /\ IsCont(bs[3])
             /\ (b = 224 => bs[2] >= 160)
             /\ (b = 237 => bs[2] <= 159)
             /\ Utf8Valid(SubSeq(bs, 4, n))
        [] b \in 240..244 ->
             /\ n >= 4
             /\ IsCont(bs[2])
             /\ IsCont(bs[3])
             /\ IsCont(bs[4])
             /\ (b = 240 => bs[2] >= 144)
             /\ (b = 244 => bs[2] <= 143)
             /\ Utf8Valid(SubSeq(bs, 5, n))
        [] OTHER -> FALSE

Utf8Decode(bs) ==
  IF Utf8Valid(bs) THEN Ok(bs)
  ELSE Exc("UnicodeDecodeError", <<"'utf-8' codec can't decode bytes">>)

KeyPrefix == <<"b","e","d","r","o","c","k","-","a","p","i","-","k","e","y","-">>

\* app.py 38-39: strip the known prefix, pad with "===", decode.
DecodeToken(tok) ==
  LET encoded_url == RemoveAll(tok, KeyPrefix) IN
    Then(B64Decode(encoded_url \o <<"=", "=", "=">>), LAMBDA raw : Utf8Decode(raw))

(***************************************************************************)
(* call_bedrock_api, up to the outbound call (app.py 29-112).              *)
(***************************************************************************)
MaxTokens == 1000
Timeout == 30
BedrockUrl ==
  "https://bedrock-runtime.eu-central-1.amazonaws.com/model/eu.anthropic.claude-sonnet-4-5-20250929-v1:0/invoke"
AnthropicVersion == "bedrock-2023-05-31"
NoTokenText == Str("Error: Server API Token is not configured.")
DataImagePrefix == <<"d","a","t","a",":","i","m","a","g","e","/">>

\* A check for None instead of emptiness: os.environ.get(..., "") is never None.
TokenMissing_isNone(tok) == FALSE

\* 33: if not BEARER_TOKEN
TokenMissing(tok) == tok = <<>>

\* The accumulation without the newline between system messages.
SystemAppend_noNewline(system_prompt, msg) ==
  LET content == Get(msg, "content", JS(<<>>)) IN
    IF IsStr(content) THEN Ok(system_prompt \o Val(content))
    ELSE Exc("TypeError", <<"can only concatenate">>)

\* 48: system_prompt += msg.get("content", "") + "\n"
SystemAppend(system_prompt, msg) ==
  LET content == Get(msg, "content", JS(<<>>)) IN
    IF IsStr(content) THEN Ok(system_prompt \o Val(content) \o <<"\n">>)
    ELSE IF IsList(content) THEN
      Exc("TypeError", <<"can only concatenate list (not \"str\") to list">>)
    ELSE
      Exc("TypeError",
          <<"unsupported operand type(s) for +: '", PyType(content), "' and 'str'">>)

\* 66-75: the image block of a data URI.
ImageBlock(image_url) ==
  LET parts == Split1(image_url, ",") IN
    IF Len(parts) < 2 THEN
      Exc("ValueError", <<"not enough values to unpack (expected 2, got 1)">>)
    ELSE
      LET header == parts[1]
          data == parts[2]
          mime_type == Split(Split(header, ":")[2], ";")[1]
      IN Ok(JO([type |-> Str("image"),
                source |-> JO([type |-> Str("base64"),
                               media_type |-> JS(mime_type),
                               data |-> JS(data)])]))

\* 63-75: the blocks of an image_url item, from item.get("image_url", {}).
ImageUrlBlocks(iu) ==
  IF ~IsObj(iu) THEN NoAttr(iu, "get")
  ELSE IF ~IsStr(Get(iu, "url", JS(<<>>))) THEN
    NoAttr(Get(iu, "url", JS(<<>>)), "startswith")
  ELSE IF StartsWith(Val(Get(iu, "url", JS(<<>>))), DataImagePrefix) THEN
    Then(ImageBlock(Val(Get(iu, "url", JS(<<>>)))), LAMBDA b : Ok(<<b>>))
  ELSE Ok(<<>>)

\* 56-75: the blocks one content item appends to claude_content.
TranslateItem(item) ==
  IF ~IsObj(item) THEN NoAttr(item, "get")
  ELSE IF Get(item, "type", JNull) = Str("text") THEN
    Ok(<<JO([type |-> Str("text"), text |-> Get(item, "text", JS(<<>>))])>>)
  ELSE IF Get(item, "type", JNull) = Str("image_url") THEN
    ImageUrlBlocks(Get(item, "image_url", EmptyObj))
  ELSE Ok(<<>>)

\* 54-75: for item in content
RECURSIVE TranslateItems(_, _)
TranslateItems(items, claude_content) ==
  IF items = <<>> THEN Ok(claude_content)
  ELSE
    Then(TranslateItem(Head(items)),
         LAMBDA b : TranslateItems(Tail(items), claude_content \o b))

\* The role test with "assistant" left out.
IsChatRole_userOnly(role) == role = Str("user")

\* 49: msg.get("role") in ["user", "assistant"]
IsChatRole(role) == role \in {Str("user"), Str("assistant")}

\* 50-85: the entry a user or assistant message appends to claude_messages.
TranslateChat(msg) ==
  IF IsList(Get(msg, "content", JS(<<>>))) THEN
    Then(TranslateItems(Val(Get(msg, "content", JS(<<>>))), <<>>),
         LAMBDA claude_content :
           Ok([role |-> Get(msg, "role", JNull), content |-> JL(claude_content)]))
  ELSE
    Ok([role |-> Get(msg, "role", JNull), content |-> Get(msg, "content", JS(<<>>))])

RECURSIVE SetToSeq(_)
SetToSeq(S) ==
  IF S = {} THEN <<>>
  ELSE LET e == CHOOSE e \in S : TRUE IN <<e>> \o SetToSeq(S \ {e})

\* What "for msg in messages" iterates over: the elements of a list, the
\* characters of a string, the keys of an object.
Iterate(messages) ==
  CASE IsList(messages) -> Ok(Val(messages))
    [] IsStr(messages) ->
         Ok([i \in 1..Len(Val(messages)) |-> JS(<<Val(messages)[i]>>)])
    [] IsObj(messages) ->
         Ok(SetToSeq({Str(k) : k \in DOMAIN Val(messages)}))
    [] OTHER ->
         Exc("TypeError", <<"'", PyType(messages), "' object is not iterable">>)

\* 45-85: the loop over the messages.
RECURSIVE TranslateLoop(_, _, _)
TranslateLoop(msgs, system_prompt, claude_messages) ==
  IF msgs = <<>> THEN
    Ok([system_prompt |-> system_prompt, claude_messages |-> claude_messages])
  ELSE IF ~IsObj(Head(msgs)) THEN NoAttr(Head(msgs), "get")
  ELSE IF Get(Head(msgs), "role", JNull) = Str("system") THEN
    Then(SystemAppend(system_prompt, Head(msgs)),
         LAMBDA sp : TranslateLoop(Tail(msgs), sp, claude_messages))
  ELSE IF IsChatRole(Get(Head(msgs), "role", JNull)) THEN
    Then(TranslateChat(Head(msgs)),
         LAMBDA m : TranslateLoop(Tail(msgs), system_prompt, Append(claude_messages, m)))
  ELSE TranslateLoop(Tail(msgs), system_prompt, claude_messages)

\* 42-85
Translate(messages) ==
  Then(Iterate(messages), LAMBDA msgs : TranslateLoop(msgs, <<>>, <<>>))

\* 88-96: the payload, with "system" only when the trimmed prompt is not empty.
BedrockPayload(tr) ==
  LET base == [anthropic_version |-> AnthropicVersion,
               messages |-> tr.claude_messages,
               max_tokens |-> MaxTokens]
  IN IF Strip(tr.system_prompt) # <<>>
       THEN base @@ [system |-> Strip(tr.system_prompt)]
       ELSE base

\* 99-102
Headers(tok) ==
  [ContentType |-> "application/json", Authorization |-> <<"Bearer ">> \o tok]

\* 121-123: except Exception as e: return f"Error: {str(e)}"
ErrorText(e) == JS(<<"Error: ">> \o e.text)

\* 99-112 and 121-123: the outbound call built from a completed
\* translation, or the error string of the exception raised before it.
Outbound(tok, tr) ==
  IF ~tr.ok THEN [call |-> FALSE, result |-> ErrorText(tr)]
  ELSE [call |-> TRUE,
        post |-> [url |-> BedrockUrl,
                  headers |-> Headers(tok),
                  json |-> BedrockPayload(tr.val),
                  timeout |-> Timeout]]

\* 31-112: either the outbound call to issue, or the string returned
\* without one.
Prepare(tok, messages) ==
  IF TokenMissing(tok) THEN [call |-> FALSE, result |-> NoTokenText]
  ELSE Outbound(tok, Then(DecodeToken(tok), LAMBDA decoded_url : Translate(messages)))

(***************************************************************************)
(* call_bedrock_api, from the answer of the outbound call (app.py 107-123).*)
(***************************************************************************)
\* What requests.post ends in: a response with a status and a body, or a
\* raised exception (a timeout, a transport failure).
VendorResponse(status, decodes, json) ==
  [kind |-> "response", status |-> status, decodes |-> decodes, json |-> json,
   exc |-> "", text |-> <<>>]
VendorRaise(exc, text) ==
  [kind |-> "raise", status |-> 0, decodes |-> FALSE, json |-> JNull,
   exc |-> exc, text |-> text]

\* x[0]
Index0(x) ==
  CASE IsList(x) ->
         IF Val(x) = <<>> THEN Exc("IndexError", <<"list index out of range">>)
         ELSE Ok(Val(x)[1])
    [] IsStr(x) ->
         IF Val(x) = <<>> THEN Exc("IndexError", <<"string index out of range">>)
         ELSE Ok(JS(<<Val(x)[1]>>))
    [] IsObj(x) -> Exc("KeyError", <<"0">>)
    [] OTHER -> Exc("TypeError", <<"'", PyType(x), "' object is not subscriptable">>)

\* 115: response.json()
ResponseJson(o) ==
  IF o.decodes THEN Ok(o.json)
  ELSE Exc("JSONDecodeError", <<"Expecting value: line 1 column 1 (char 0)">>)

\* 116: result.get("content", [{}])[0].get("text", "No response")
FirstText(result) ==
  IF ~IsObj(result) THEN NoAttr(result, "get")
  ELSE
    Then(Index0(Get(result, "content", JL(<<EmptyObj>>))),
         LAMBDA first :
           IF ~IsObj(first) THEN NoAttr(first, "get")
           ELSE Ok(Get(first, "text", Str("No response"))))

\* 107-123: the string call_bedrock_api returns once the call has ended.
\* 121-123 around 114-116: the text, or the error string of what was raised.
Caught(r) == IF r.ok THEN r.val ELSE ErrorText(r)

Finish(o) ==
  IF o.kind = "raise" THEN ErrorText(o)
  ELSE IF o.status = 200 THEN
    Caught(Then(ResponseJson(o), LAMBDA result : FirstText(result)))
  ELSE JS(<<"Error calling Bedrock: ", ToString(o.status)>>)

(***************************************************************************)
(* chat_completions (app.py 149-190).                                      *)
(***************************************************************************)
Created == 1234567890
DefaultModel == Str("claude-sonnet-4")

\* An inbound POST body: bytes that decode to a JSON value, or do not.
Body(json) == [decodes |-> TRUE, json |-> json]
Undecodable == [decodes |-> FALSE, json |-> JNull]

\* request.get_json(silent=True) with a fallback body: a parse failure is
\* swallowed.
RequestJson_silent(req) ==
  IF req.decodes THEN Ok(req.json) ELSE Ok(JO([messages |-> JL(<<>>)]))

\* 160: data = request.json
RequestJson(req) ==
  IF req.decodes THEN Ok(req.json)
  ELSE Exc("BadRequest",
           <<"400 Bad Request: The browser (or proxy) sent a request that this server could not understand.">>)

\* 167-187: the completion object, returned with status 200.
Completion(model, bedrock_response) ==
  [status |-> 200,
   body |-> [id |-> "chatcmpl-bedrock",
             object |-> "chat.completion",
             created |-> Created,
             model |-> model,
             choices |-> <<[index |-> 0,
                            message |-> [role |-> "assistant",
                                         content |-> bedrock_response],
                            finish_reason |-> "stop"]>>,
             usage |-> [prompt_tokens |-> 10,
                        completion_tokens |-> 20,
                        total_tokens |-> 30]]]

\* 189-190: except Exception as e: return jsonify({"error": str(e)}), 500
ErrorEnvelope(e) == [status |-> 500, body |-> [error |-> e.text]]

\* 165-190: what the handler does with call_bedrock_api's first phase.
Started(model, p) ==
  IF p.call THEN [phase |-> "call", post |-> p.post]
  ELSE [phase |-> "respond", response |-> Completion(model, p.result)]

\* 161-162 and 189-190: data.get(...) on the decoded body.
Dispatch(tok, data) ==
  IF ~data.ok THEN [phase |-> "respond", response |-> ErrorEnvelope(data)]
  ELSE Started(Get(data.val, "model", DefaultModel),
               Prepare(tok, Get(data.val, "messages", JL(<<>>))))

\* 160-165: the handler up to the point where call_bedrock_api either
\* returns without a call or blocks in requests.post.
HandleStart(tok, req) ==
  Dispatch(tok, Then(RequestJson(req),
                     LAMBDA data : IF IsObj(data) THEN Ok(data) ELSE NoAttr(data, "get")))

\* 165-187: the handler from the end of the outbound call.
HandleFinish(req, o) ==
  Completion(Get(req.json, "model", DefaultModel), Finish(o))

(***************************************************************************)
(* Inputs.                                                                 *)
(***************************************************************************)
MaxMsgs == 2
MaxItems == 2
MaxReqs == 2

SeqsUpTo(S, n) == UNION {[1..k -> S] : k \in 0..n}

\* The credential read from the environment at start (27).
Tokens ==
  { <<>>,
    KeyPrefix \o <<"Q","U","J","D">>,
    KeyPrefix \o <<"w","6","k">>,
    KeyPrefix \o <<"Q">>,
    KeyPrefix \o <<"/","w">> }

DataPngUrl ==
  DataImagePrefix \o <<"p","n","g",";","b","a","s","e","6","4",",","Q","U","J","D">>
NoCommaUrl == DataImagePrefix \o <<"p","n","g",";","b","a","s","e","6","4">>
TwoCommaUrl == DataImagePrefix \o <<"g","i","f",",","Q",",","J">>
HttpUrl == <<"h","t","t","p",":","/","/","x","/","a",".","p","n","g">>
DataTextUrl == <<"d","a","t","a",":","t","e","x","t","/","x",",","Q","Q">>

ImageItem(url) ==
  JO([type |-> Str("image_url"), image_url |-> JO([url |-> JS(url)])])

ItText == JO([type |-> Str("text"), text |-> Str("hello")])
ItTextBare == JO([type |-> Str("text")])
ItImgPng == ImageItem(DataPngUrl)
ItImgTwoComma == ImageItem(TwoCommaUrl)
ItImgHttp == ImageItem(HttpUrl)
ItImgDataText == ImageItem(DataTextUrl)
ItImgNoComma == ImageItem(NoCommaUrl)
ItImgStr == JO([type |-> Str("image_url"), image_url |-> JS(DataPngUrl)])
ItImgNone == JO([type |-> Str("image_url")])
ItVideo == JO([type |-> Str("video"), video |-> Str("v")])
ItNoType == JO([text |-> Str("hello")])
ItNonObj == Str("hello")

Items ==
  { ItText, ItTextBare, ItImgPng, ItImgTwoComma, ItImgHttp, ItImgDataText,
    ItImgNoComma, ItImgStr, ItImgNone, ItVideo, ItNoType, ItNonObj }

Msg(role, content) == JO([role |-> Str(role), content |-> content])

SysEmpty == Msg("system", JS(<<>>))
SysSpace == Msg("system", JS(<<" ">>))
SysA == Msg("system", JS(<<"a">>))
SysB == Msg("system", JS(<<" ", "b", "\n">>))
SysList == Msg("system", JL(<<ItText>>))
SysNoContent == JO([role |-> Str("system")])
UserHi == Msg("user", Str("hi"))
AsstYo == Msg("assistant", Str("yo"))
ToolX == Msg("tool", Str("x"))
NoRole == JO([content |-> Str("hi")])
UserTextList == Msg("user", JL(<<ItText>>))
AsstVideoList == Msg("assistant", JL(<<ItVideo>>))
MsgNonObj == Str("hi")

Msgs ==
  { SysEmpty, SysSpace, SysA, SysB, SysList, SysNoContent, UserHi, AsstYo,
    ToolX, NoRole, UserTextList, AsstVideoList, MsgNonObj }

Chat(msgs) == Body(JO([messages |-> JL(msgs)]))
ChatModel(msgs, model) == Body(JO([messages |-> JL(msgs), model |-> model]))

\* Bodies that are not the documented {messages: [...], model?} shape.
OddRequests ==
  { Undecodable, Body(JL(<<UserHi>>)), Body(Str("hi")), Body(JNull), Body(JNum(1)),
    Body(JO([model |-> Str("gpt-4")])),
    Body(JO([messages |-> Str("hi")])),
    Body(JO([messages |-> JS(<<>>)])),
    Body(JO([messages |-> JNull])),
    Body(JO([messages |-> JO([role |-> Str("user")])])) }

Requests ==
  {Chat(ms) : ms \in SeqsUpTo(Msgs, MaxMsgs)}
    \cup {Chat(<<Msg("user", JL(its))>>) : its \in SeqsUpTo(Items, MaxItems)}
    \cup {ChatModel(<<UserHi>>, Str("gpt-4")), ChatModel(<<SysA, ToolX>>, JNull)}
    \cup OddRequests

\* The inputs of the concurrent specification.
SmallRequests ==
  { Chat(<<UserHi>>), ChatModel(<<SysA, AsstYo>>, Str("gpt-4")), Undecodable,
    Chat(<<Msg("user", JL(<<ItImgNoComma>>))>>) }

TextBlock(t) == JO([type |-> Str("text"), text |-> Str(t)])

Outcomes ==
  { VendorResponse(200, TRUE, JO([content |-> JL(<<TextBlock("hi")>>)])),
    VendorResponse(200, TRUE, JO([content |-> JL(<<TextBlock("hi"), TextBlock("yo")>>)])),
    VendorResponse(200, TRUE, JO([type |-> Str("message")])),
    VendorResponse(200, TRUE, JO([content |-> JL(<<>>)])),
    VendorResponse(200, TRUE,
                   JO([content |-> JL(<<JO([type |-> Str("tool_use")]), TextBlock("yo")>>)])),
    VendorResponse(200, TRUE, JO([content |-> JNull])),
    VendorResponse(200, TRUE, JL(<<TextBlock("hi")>>)),
    VendorResponse(200, FALSE, JNull),
    VendorResponse(201, TRUE, JO([content |-> JL(<<TextBlock("hi")>>)])),
    VendorResponse(403, TRUE, JO([message |-> Str("Forbidden")])),
    VendorResponse(500, FALSE, JNull),
    VendorRaise("ReadTimeout", <<"HTTPSConnectionPool: Read timed out. (read timeout=30)">>),
    VendorRaise("ConnectionError", <<"HTTPSConnectionPool: Max retries exceeded">>) }

(***************************************************************************)
(* State.  BEARER_TOKEN is the only value shared by requests; everything   *)
(* else belongs to one request being handled (one slot of Reqs).           *)
(***************************************************************************)
VARIABLES
  BEARER_TOKEN,  \* 27: the credential, read once
  pc,            \* per request: "idle", "waiting" (in requests.post), "done"
  request,       \* per request: the inbound body
  sent,          \* per request: the outbound call issued, if any
  calls,         \* per request: how many outbound calls it has issued
  outcome,       \* per request: what the outbound call ended in
  response       \* per request: what chat_completions returned

vars == <<BEARER_TOKEN, pc, request, sent, calls, outcome, response>>

Reqs == 1..MaxReqs
None == [none |-> TRUE]

Init ==
  /\ BEARER_TOKEN \in Tokens
  /\ pc = [r \in Reqs |-> "idle"]
  /\ request = [r \in Reqs |-> None]
  /\ sent = [r \in Reqs |-> None]
  /\ calls = [r \in Reqs |-> 0]
  /\ outcome = [r \in Reqs |-> None]
  /\ response = [r \in Reqs |-> None]

\* POST /v1/chat/completions arrives: the handler runs until it returns or
\* blocks in the outbound call.
Begin(r, req, h) ==
  /\ pc[r] = "idle"
  /\ request' = [request EXCEPT ![r] = req]
  /\ IF h.phase = "call" THEN
       /\ pc' = [pc EXCEPT ![r] = "waiting"]
       /\ sent' = [sent EXCEPT ![r] = h.post]
       /\ calls' = [calls EXCEPT ![r] = @ + 1]
       /\ UNCHANGED response
     ELSE
       /\ pc' = [pc EXCEPT ![r] = "done"]
       /\ response' = [response EXCEPT ![r] = h.response]
       /\ UNCHANGED <<sent, calls>>
  /\ UNCHANGED <<BEARER_TOKEN, outcome>>

Receive(r, req) == Begin(r, req, HandleStart(BEARER_TOKEN, req))

\* A handler that calls the vendor a second time when the first call failed.
VendorReply_retry(r, o) ==
  /\ pc[r] = "waiting"
  /\ IF (o.kind = "raise" \/ o.status # 200) /\ calls[r] < 2 THEN
       /\ calls' = [calls EXCEPT ![r] = @ + 1]
       /\ UNCHANGED <<pc, outcome, response>>
     ELSE
       /\ outcome' = [outcome EXCEPT ![r] = o]
       /\ response' = [response EXCEPT ![r] = HandleFinish(request[r], o)]
       /\ pc' = [pc EXCEPT ![r] = "done"]
       /\ UNCHANGED calls
  /\ UNCHANGED <<BEARER_TOKEN, request, sent>>

\* The outbound call ends (a response, a timeout, a transport failure) and
\* the handler returns.
VendorReply(r, o) ==
  /\ pc[r] = "waiting"
  /\ outcome' = [outcome EXCEPT ![r] = o]
  /\ response' = [response EXCEPT ![r] = HandleFinish(request[r], o)]
  /\ pc' = [pc EXCEPT ![r] = "done"]
  /\ UNCHANGED <<BEARER_TOKEN, request, sent, calls>>

\* The HTTP exchange is over: nothing of the request is kept.
Release(r) ==
  /\ pc[r] = "done"
  /\ pc' = [pc EXCEPT ![r] = "idle"]
  /\ request' = [request EXCEPT ![r] = None]
  /\ sent' = [sent EXCEPT ![r] = None]
  /\ calls' = [calls EXCEPT ![r] = 0]
  /\ outcome' = [outcome EXCEPT ![r] = None]
  /\ response' = [response EXCEPT ![r] = None]
  /\ UNCHANGED BEARER_TOKEN

\* One request at a time, over the whole input universe.
Next ==
  \/ \E req \in Requests : Receive(1, req)
  \/ \E o \in Outcomes : VendorReply(1, o)
  \/ Release(1)

Spec == Init /\ [][Next]_vars

\* Requests handled concurrently, over a small input universe.
NextConc ==
  \/ \E r \in Reqs : \E req \in SmallRequests : Receive(r, req)
  \/ \E r \in Reqs : \E o \in Outcomes : VendorReply(r, o)
  \/ \E r \in Reqs : Release(r)

SpecConc == Init /\ [][NextConc]_vars
(***************************************************************************)
(* Properties.                                                             *)
(***************************************************************************)
Handled(r) == pc[r] # "idle"
Done(r) == pc[r] = "done"
Issued(r) == sent[r] # None
Replied(r) == outcome[r] # None

\* choices[0].message.content of a returned completion.
Content(r) == response[r].body.choices[1].message.content

\* A body that decodes to a JSON object.
ValidBody(req) == req.decodes /\ IsObj(req.json)
MessagesOf(req) == Get(req.json, "messages", JL(<<>>))

\* A credential that is present and passes the decode step.
TokenUsable(tok) == tok # <<>> /\ DecodeToken(tok).ok

IsCompletion(resp) ==
  /\ resp.status = 200
  /\ resp.body.object = "chat.completion"
  /\ resp.body.choices[1].message.role = "assistant"
  /\ resp.body.choices[1].finish_reason = "stop"

\* C1: with the credential empty, every POST whose body is a JSON object
\* (whatever its messages, with or without a model) has returned without
\* any outbound call, with status 200 and a completion whose message
\* content is the fixed "Server API Token is not configured" text.
C1_MissingCredentialSoftFailure ==
  \A r \in Reqs :
    (BEARER_TOKEN = <<>> /\ Handled(r) /\ ValidBody(request[r])) =>
      /\ Done(r)
      /\ ~Issued(r)
      /\ calls[r] = 0
      /\ IsCompletion(response[r])
      /\ response[r].body.model = Get(request[r].json, "model", Str("claude-sonnet-4"))
      /\ Content(r) = Str("Error: Server API Token is not configured.")

\* C1 witness: an empty credential, a handled body with a model field and a
\* non-empty messages list.
C1_Witness ==
  \E r \in Reqs :
    /\ BEARER_TOKEN = <<>>
    /\ Done(r)
    /\ ValidBody(request[r])
    /\ "model" \in DOMAIN Val(request[r].json)
    /\ MessagesOf(request[r]) # JL(<<>>)

\* C2 as stated: a body that is undecodable or not a JSON object is
\* answered with status 200 and a completion carrying the error text.
C2_MalformedJsonIsSoftFailure ==
  \A r \in Reqs :
    (Handled(r) /\ ~ValidBody(request[r])) =>
      /\ Done(r)
      /\ IsCompletion(response[r])
      /\ IsStr(Content(r))

\* C2 amended: a body that is undecodable or not a JSON object is answered
\* with status 500 and the envelope {error: <text>}, without any outbound
\* call; it is never answered with a completion.
C2_MalformedJsonIsEnvelope ==
  \A r \in Reqs :
    (Handled(r) /\ ~ValidBody(request[r])) =>
      /\ Done(r)
      /\ ~Issued(r)
      /\ calls[r] = 0
      /\ response[r].status = 500
      /\ DOMAIN response[r].body = {"error"}

\* C2 witness: an undecodable body has been answered.
C2_Witness ==
  \E r \in Reqs : Done(r) /\ ~request[r].decodes /\ response[r].status = 500

\* The vendor answer of a finished request is a 200 whose body is an object
\* with, in "content", nothing, an empty list, or a list starting with an
\* object.
SuccessShape(o) ==
  /\ o.kind = "response"
  /\ o.status = 200
  /\ o.decodes
  /\ IsObj(o.json)
  /\ "content" \in DOMAIN Val(o.json) =>
       /\ IsList(Val(o.json).content)
       /\ Val(Val(o.json).content) # <<>> => IsObj(Val(Val(o.json).content)[1])

\* The text the claim names: the first block's text, or the sentinel when
\* it is structurally absent.
FirstBlockText(json) ==
  IF /\ "content" \in DOMAIN Val(json)
     /\ Val(Val(json).content) # <<>>
     /\ "text" \in DOMAIN Val(Val(Val(json).content)[1])
  THEN Val(Val(Val(json).content)[1]).text
  ELSE Str("No response")

\* C7 as stated: after a vendor status 200 the completion's content is the
\* first block's text, and "No response" when there is no content field,
\* an empty content list, or a first block without text.
C7_VendorSuccessUnwrapping ==
  \A r \in Reqs :
    (Done(r) /\ Replied(r) /\ SuccessShape(outcome[r])) =>
      /\ IsCompletion(response[r])
      /\ Content(r) = FirstBlockText(outcome[r].json)

\* C8 as stated: with any non-empty credential, a body whose messages
\* translate leads to the outbound call, with the undecoded credential as
\* Bearer value and the fixed URL and the payload of the translation.
C8_DecodeHasNoEffect ==
  \A r \in Reqs :
    (/\ BEARER_TOKEN # <<>>
     /\ Handled(r)
     /\ ValidBody(request[r])
     /\ Translate(MessagesOf(request[r])).ok) =>
      /\ Issued(r)
      /\ sent[r].headers.Authorization = <<"Bearer ">> \o BEARER_TOKEN
      /\ sent[r].url = BedrockUrl
      /\ sent[r].json = BedrockPayload(Translate(MessagesOf(request[r])).val)

\* The outbound call of a finished request failed: a status other than 200,
\* a timeout or a transport exception.
FailedCall(o) == o.kind = "raise" \/ o.status # 200

SoftFailure9 ==
  \A r \in Reqs :
    /\ calls[r] <= 1
    /\ Issued(r) <=> calls[r] = 1
    /\ (Done(r) /\ Replied(r) /\ FailedCall(outcome[r])) =>
         /\ IsCompletion(response[r])
         /\ Content(r) =
              IF outcome[r].kind = "raise"
                THEN JS(<<"Error: ">> \o outcome[r].text)
                ELSE JS(<<"Error calling Bedrock: ", ToString(outcome[r].status)>>)

\* Two finished requests with the same body and the same vendor outcome
\* have the same response, whatever else was handled meanwhile.
Independent9 ==
  \A r1, r2 \in Reqs :
    (/\ Done(r1) /\ Done(r2)
     /\ request[r1] = request[r2]
     /\ outcome[r1] = outcome[r2]) => response[r1] = response[r2]

\* A step leaves alone every request it does not handle: the call a waiting
\* request has issued and the response of a finished one are not touched
\* while the request stays in that state.
Frame9 ==
  \A r \in Reqs :
    /\ (pc[r] = "waiting" /\ pc'[r] = "waiting") =>
         (sent'[r] = sent[r] /\ calls'[r] = calls[r] /\ request'[r] = request[r])
    /\ (pc[r] = "done" /\ pc'[r] = "done") =>
         (response'[r] = response[r] /\ calls'[r] = calls[r])

\* C9: every request issues at most one outbound call; when that call ends
\* in a non-200 status, a timeout or a transport exception the request is
\* answered with status 200 and a completion whose content is the error
\* string; no request's handling reads or changes another's.
C9_SingleAttemptSoftFailure ==
  [](SoftFailure9 /\ Independent9) /\ [][Frame9]_vars

\* C9 witness: one request has failed at the vendor while another,
\* handled concurrently, was answered with the vendor's text.
C9_Witness ==
  \E r1, r2 \in Reqs :
    /\ r1 # r2
    /\ Done(r1) /\ Replied(r1) /\ FailedCall(outcome[r1])
    /\ Done(r2) /\ Replied(r2) /\ ~FailedCall(outcome[r2])
    /\ Content(r2) = Str("hi")
(***************************************************************************)
(* Properties of the translation.                                          *)
(***************************************************************************)
Role(m) == Get(m, "role", JNull)
ContentOf(m) == Get(m, "content", JS(<<>>))
IsSystem(m) == IsObj(m) /\ Role(m) = Str("system")
IsChat(m) == IsObj(m) /\ Role(m) \in {Str("user"), Str("assistant")}

\* The messages the handler iterates over (of a body that got that far).
InputMsgs(req) == Iterate(MessagesOf(req)).val
Payload(r) == sent[r].json

\* A body {messages: [...]} whose messages are all objects, the system ones
\* with string content.
CleanEnvelope(req) ==
  /\ ValidBody(req)
  /\ IsList(MessagesOf(req))
  /\ \A i \in DOMAIN Val(MessagesOf(req)) :
       LET m == Val(MessagesOf(req))[i] IN
         IsObj(m) /\ (IsSystem(m) => IsStr(ContentOf(m)))

RECURSIVE JoinNl(_)
JoinNl(texts) ==
  IF texts = <<>> THEN <<>>
  ELSE IF Len(texts) = 1 THEN texts[1]
  ELSE texts[1] \o <<"\n">> \o JoinNl(Tail(texts))

\* The texts of the system messages, in input order.
SysTexts(msgs) ==
  LET sys == SelectSeq(msgs, IsSystem) IN
    [i \in 1..Len(sys) |-> Val(ContentOf(sys[i]))]

WantedSystem(msgs) == Strip(JoinNl(SysTexts(msgs)))
HasInk(text) == \E i \in DOMAIN text : ~IsSpace(text[i])
OnlySystem(msgs) == msgs # <<>> /\ \A i \in DOMAIN msgs : IsSystem(msgs[i])

\* No system entry among the translated messages; "system" is the trimmed
\* newline-joined text of the system messages, present only if not empty.
SystemSeparated(r) ==
  /\ \A i \in DOMAIN Payload(r).messages : Payload(r).messages[i].role # Str("system")
  /\ IF WantedSystem(InputMsgs(request[r])) = <<>>
       THEN "system" \notin DOMAIN Payload(r)
       ELSE /\ "system" \in DOMAIN Payload(r)
            /\ Payload(r).system = WantedSystem(InputMsgs(request[r]))

\* C4 as stated: in every outbound call the system messages are separated
\* as above, and a list of only system messages gives no translated
\* message and a non-empty system prompt.
C4_SystemSeparationNonEmpty ==
  \A r \in Reqs :
    Issued(r) =>
      /\ SystemSeparated(r)
      /\ OnlySystem(InputMsgs(request[r])) =>
           (Payload(r).messages = <<>> /\ "system" \in DOMAIN Payload(r))

\* C4 amended: as stated, except that a list of only system messages gives
\* a system prompt exactly when one of their texts has a character that is
\* not whitespace; otherwise the payload has no "system" field.
C4_SystemSeparation ==
  \A r \in Reqs :
    Issued(r) =>
      /\ SystemSeparated(r)
      /\ OnlySystem(InputMsgs(request[r])) =>
           /\ Payload(r).messages = <<>>
           /\ "system" \in DOMAIN Payload(r) <=>
                \E i \in DOMAIN InputMsgs(request[r]) :
                  HasInk(Val(ContentOf(InputMsgs(request[r])[i])))

\* C4 witness: two system messages and nothing else were sent on as one
\* system prompt.
C4_Witness ==
  \E r \in Reqs :
    /\ Issued(r)
    /\ OnlySystem(InputMsgs(request[r]))
    /\ Len(InputMsgs(request[r])) = 2
    /\ "system" \in DOMAIN Payload(r)
    /\ Find(Payload(r).system, "\n") > 0

IsSupportedType(item) == Get(item, "type", JNull) \in {Str("text"), Str("image_url")}

\* List content whose items are all objects of an unsupported type.
OnlyUnsupported(content) ==
  /\ IsList(content)
  /\ \A j \in DOMAIN Val(content) :
       IsObj(Val(content)[j]) /\ ~IsSupportedType(Val(content)[j])

\* A message that is an object, with string content if it is a system
\* message and no supported item if it is a chat message with list content.
Clean5(m) ==
  /\ IsObj(m)
  /\ IsSystem(m) => IsStr(ContentOf(m))
  /\ (IsChat(m) /\ IsList(ContentOf(m))) => OnlyUnsupported(ContentOf(m))

\* C5: the translated messages are, in input order, one entry per user or
\* assistant message with that message's role; a message with another or
\* no role is dropped and raises nothing; a message whose list content has
\* only unsupported item types gives an entry with an empty block list.
C5_OrderAndCardinality ==
  \A r \in Reqs :
    /\ Issued(r) =>
         LET chat == SelectSeq(InputMsgs(request[r]), IsChat)
             out == Payload(r).messages
         IN /\ Len(out) = Len(chat)
            /\ \A i \in 1..Len(chat) :
                 /\ out[i].role = Role(chat[i])
                 /\ IsList(out[i].content) <=> IsList(ContentOf(chat[i]))
                 /\ ~IsList(ContentOf(chat[i])) => out[i].content = ContentOf(chat[i])
                 /\ OnlyUnsupported(ContentOf(chat[i])) => out[i].content = JL(<<>>)
    /\ (/\ Handled(r)
        /\ TokenUsable(BEARER_TOKEN)
        /\ ValidBody(request[r])
        /\ IsList(MessagesOf(request[r]))
        /\ \A i \in DOMAIN InputMsgs(request[r]) : Clean5(InputMsgs(request[r])[i]))
         => Issued(r)

\* C5 witness: an assistant message with only an unsupported item, then a
\* user message, sent on in that order.
C5_Witness ==
  \E r \in Reqs :
    /\ Issued(r)
    /\ Len(Payload(r).messages) = 2
    /\ Payload(r).messages[1].role = Str("assistant")
    /\ Payload(r).messages[1].content = JL(<<>>)
    /\ Payload(r).messages[2].role = Str("user")

\* An item the claim calls malformed: not an object, a missing or unknown
\* type, an image_url that is not an object (or a URL that is not a
\* string), a data URI without a comma.
MalformedItem(item) ==
  \/ ~IsObj(item)
  \/ ~IsSupportedType(item)
  \/ /\ Get(item, "type", JNull) = Str("image_url")
     /\ LET iu == Get(item, "image_url", EmptyObj) IN
          \/ ~IsObj(iu)
          \/ ~IsStr(Get(iu, "url", JS(<<>>)))
          \/ /\ StartsWith(Val(Get(iu, "url", JS(<<>>))), <<"d","a","t","a",":">>)
             /\ Find(Val(Get(iu, "url", JS(<<>>))), ",") = 0

RECURSIVE Flatten(_)
Flatten(seqs) == IF seqs = <<>> THEN <<>> ELSE Head(seqs) \o Flatten(Tail(seqs))

ConcatBlocks(items, F(_)) == Flatten([j \in DOMAIN items |-> F(items[j])])

\* The translated messages when every chat item contributes the blocks F
\* gives for it.
EntriesWith(msgs, F(_)) ==
  LET chat == SelectSeq(msgs, IsChat) IN
    [i \in 1..Len(chat) |->
       [role |-> Role(chat[i]),
        content |-> IF IsList(ContentOf(chat[i]))
                      THEN JL(ConcatBlocks(Val(ContentOf(chat[i])), F))
                      ELSE ContentOf(chat[i])]]

\* A malformed item counts as absent.
DegradedBlocks(item) == IF MalformedItem(item) THEN <<>> ELSE TranslateItem(item).val

HasItem(req, P(_)) ==
  \E i \in DOMAIN Val(MessagesOf(req)) :
    LET m == Val(MessagesOf(req))[i] IN
      /\ IsChat(m)
      /\ IsList(ContentOf(m))
      /\ \E j \in DOMAIN Val(ContentOf(m)) : P(Val(ContentOf(m))[j])

AllItems(req, P(_)) ==
  \A i \in DOMAIN Val(MessagesOf(req)) :
    LET m == Val(MessagesOf(req))[i] IN
      (IsChat(m) /\ IsList(ContentOf(m))) =>
        \A j \in DOMAIN Val(ContentOf(m)) : P(Val(ContentOf(m))[j])

\* C3 as stated: a malformed content item contributes no block and raises
\* nothing; the well-formed items are translated and the call is issued
\* with the resulting payload.
C3_MalformedItemDegrades ==
  \A r \in Reqs :
    (/\ Handled(r)
     /\ TokenUsable(BEARER_TOKEN)
     /\ CleanEnvelope(request[r])
     /\ HasItem(request[r], MalformedItem)) =>
      /\ Issued(r)
      /\ Payload(r).messages = EntriesWith(InputMsgs(request[r]), DegradedBlocks)

\* An image_url item in its documented shape: {type, image_url: {url: str}}.
ImageUrlItem(item) ==
  /\ IsObj(item)
  /\ Get(item, "type", JNull) = Str("image_url")
  /\ IsObj(Get(item, "image_url", JNull))
  /\ IsStr(Get(Get(item, "image_url", JNull), "url", JNull))

TextItem(item) == IsObj(item) /\ Get(item, "type", JNull) = Str("text")
UrlOf(item) == Val(Get(Get(item, "image_url", JNull), "url", JNull))

\* Index of the first character of s at or after i that is in cs, else
\* Len(s) + 1.
RECURSIVE FirstOf(_, _, _)
FirstOf(s, cs, i) ==
  IF i > Len(s) \/ s[i] \in cs THEN i ELSE FirstOf(s, cs, i + 1)

\* The image block the claim describes: the mime type is what stands
\* between "data:" and ";base64" (or the comma), the payload what follows
\* the first comma.
DescribedImage(url) ==
  JO([type |-> Str("image"),
      source |-> JO([type |-> Str("base64"),
                     media_type |-> JS(SubSeq(url, 6, FirstOf(url, {";", ","}, 6) - 1)),
                     data |-> JS(SubSeq(url, FirstOf(url, {","}, 1) + 1, Len(url)))])])

DescribedBlocks(item) ==
  IF TextItem(item) THEN <<JO([type |-> Str("text"), text |-> Get(item, "text", JS(<<>>))])>>
  ELSE IF StartsWith(UrlOf(item), DataImagePrefix) THEN <<DescribedImage(UrlOf(item))>>
  ELSE <<>>

ItemInShape(item) == TextItem(item) \/ ImageUrlItem(item)

\* C6 as stated: every image_url item gives exactly one image block when
\* its URL begins with data:image/ and none, without error, otherwise; the
\* block has the mime type and the payload of the URI.
C6_ImageItemTranslation ==
  \A r \in Reqs :
    (/\ Handled(r)
     /\ TokenUsable(BEARER_TOKEN)
     /\ CleanEnvelope(request[r])
     /\ AllItems(request[r], ItemInShape)
     /\ HasItem(request[r], ImageUrlItem)) =>
      /\ Issued(r)
      /\ Payload(r).messages = EntriesWith(InputMsgs(request[r]), DescribedBlocks)

\* The request with the content of every list-content system message
\* replaced by the empty string.
AsIfEmpty(req) ==
  LET msgs == Val(MessagesOf(req)) IN
    Body(JO([Val(req.json) EXCEPT
               !.messages =
                 JL([i \in DOMAIN msgs |->
                       IF IsSystem(msgs[i]) /\ IsList(ContentOf(msgs[i]))
                         THEN JO([Val(msgs[i]) EXCEPT !.content = JS(<<>>)])
                         ELSE msgs[i]])]))

\* What has happened to request r is what handling req leads to.
HandledAs(r, h) ==
  IF h.phase = "call" THEN Issued(r) /\ sent[r] = h.post
  ELSE Done(r) /\ ~Issued(r) /\ response[r] = h.response

\* C10 as stated: a system message with list content is handled exactly as
\* if its content were the empty string.
C10_SystemListContentIsEmpty ==
  \A r \in Reqs :
    (/\ Handled(r)
     /\ ValidBody(request[r])
     /\ IsList(MessagesOf(request[r]))
     /\ \E i \in DOMAIN InputMsgs(request[r]) :
          /\ IsSystem(InputMsgs(request[r])[i])
          /\ IsList(ContentOf(InputMsgs(request[r])[i]))) =>
      HandledAs(r, HandleStart(BEARER_TOKEN, AsIfEmpty(request[r])))
====
